---- MODULE Spec2Model ----
(***************************************************************************)
(* A model of mitt (src/src/index.ts): a Map from event types to arrays of *)
(* handlers, with on / off / emit.  Handlers are opaque callables: while   *)
(* one runs it may call on, off or emit of the emitter again, return, or   *)
(* throw.  emit is therefore modelled as a stack of dispatch frames; all   *)
(* other operations are atomic.                                            *)
(***************************************************************************)
EXTENDS Integers, Sequences, FiniteSets, TLC

----------------------------------------------------------------------------
(* Bounds of the model *)

\* the registry holds at most MaxTotal handler references over all its arrays
MaxTotal == 3
\* emit calls nested inside handlers: at most MaxDepth dispatches in progress
MaxDepth == 2
\* on/off/emit calls made by handlers while one outermost emit is in progress
MaxReentrant == 1

----------------------------------------------------------------------------
(* Values *)

Star == "*"
Keys == {"a", Star}
Handlers == {"h1", "h2"}
Undefined == "undefined"
Payloads == {"v", Undefined}
Emitters == {"e1", "e2"}
MapIds == {"m0", "m1", "m2"}
Slots == MapIds \X Keys

VARIABLES
    all,      \* emitter -> the Map it closes over (Undefined: not constructed)
    maps,     \* Map id -> the Map: a function from the keys it has to arrays of handlers
    aliases,  \* groups of slots <<map, key>> holding one and the same array object
    stack,    \* the emit calls in progress, outermost first
    exc       \* an exception is propagating

vars == <<all, maps, aliases, stack, exc>>

----------------------------------------------------------------------------
(* The Map and its arrays *)

EmptyMap == [k \in {} |-> <<>>]

\* all.get(type) is an array, not undefined
MapHas(mp, m, type) == type \in DOMAIN mp[m]

\* all.get(type), when the key is there
MapGet(mp, m, type) == mp[m][type]

GroupOfMap(al, s) == {<<s[1], k>> : k \in Keys}

\* the slots that hold the same array object as slot s
Group(al, s) == IF \E g \in al : s \in g THEN CHOOSE g \in al : s \in g ELSE {s}

ArrayWriteLost(mp, al, s, arr) == mp

ArrayWriteDrop(mp, al, s, arr) ==
    [m \in MapIds |->
        [k \in {x \in DOMAIN mp[m] : ~(arr = <<>> /\ <<m, x>> \in Group(al, s))} |->
            IF <<m, k>> \in Group(al, s) THEN arr ELSE mp[m][k]]]

\* an in-place update of the array in slot s: seen through every slot that holds it
ArrayWrite(mp, al, s, arr) ==
    [m \in MapIds |-> [k \in DOMAIN mp[m] |->
        IF <<m, k>> \in Group(al, s) THEN arr ELSE mp[m][k]]]

MapDelete(mp, s, arr) ==
    [mp EXCEPT ![s[1]] = [k \in DOMAIN mp[s[1]] \ {s[2]} |-> mp[s[1]][k]]]

\* all.set(type, arr) with a new array: the slot leaves its group
MapSet(mp, s, arr) ==
    [mp EXCEPT ![s[1]] = [k \in DOMAIN mp[s[1]] \cup {s[2]} |->
                              IF k = s[2] THEN arr ELSE mp[s[1]][k]]]
Unalias(al, s) == {g \in {h \ {s} : h \in al} : Cardinality(g) >= 2}

MapGetOrInsert(mp, m, type) ==
    IF MapHas(mp, m, type) THEN mp ELSE MapSet(mp, <<m, type>>, <<>>)

\* the Map after all.get(type): a lookup leaves the Map as it is
MapAfterGet(mp, m, type) == mp

\* the contents of a key's array, none when the key is absent
Registered(mp, m, type) == IF MapHas(mp, m, type) THEN mp[m][type] ELSE <<>>

RECURSIVE TotalLen(_, _)
TotalLen(mp, S) ==
    IF S = {} THEN 0
    ELSE LET s == CHOOSE x \in S : TRUE
         IN  Len(Registered(mp, s[1], s[2]))
             + TotalLen(mp, S \ {s})

----------------------------------------------------------------------------
(* Array primitives *)

IndexOfLast(arr, h) ==
    IF \E j \in 1..Len(arr) : arr[j] = h
    THEN (CHOOSE j \in 1..Len(arr) : arr[j] = h /\ \A l \in (j + 1)..Len(arr) : arr[l] # h) - 1
    ELSE -1

\* Array.prototype.indexOf: 0-based index of the first element identical to h, or -1
IndexOf(arr, h) ==
    IF \E j \in 1..Len(arr) : arr[j] = h
    THEN (CHOOSE j \in 1..Len(arr) : arr[j] = h /\ \A l \in 1..(j - 1) : arr[l] # h) - 1
    ELSE -1

\* Numbers that go through the 32-bit shift are written with two digits of
\* base 2^16, <<hi, lo>> standing for hi * 2^16 + lo with lo in 0..2^16-1
\* (hi < 0 for a negative number): 2^32 - 1 is <<65535, 65535>>, -1 is <<-1, 65535>>.
Base == 256 * 256
Num(n) == <<n \div Base, n % Base>>

\* n >>> 0: the number modulo 2^32
ToUint32(x) == <<x[1] % Base, x[2]>>

Min(x, y) == IF x < y THEN x ELSE y
Max(x, y) == IF x > y THEN x ELSE y

\* Array.prototype.splice(start, deleteCount): the array after the removal.
\* A negative start counts from the end, a start beyond the length is the length.
Splice(arr, start, deleteCount) ==
    LET len   == Len(arr)
        from  == IF start[1] < 0 THEN Max(len + (start[1] * Base + start[2]), 0)
                 ELSE IF start[1] > 0 THEN len
                 ELSE Min(start[2], len)
        count == Min(Max(deleteCount, 0), len - from)
    IN  SubSeq(arr, 1, from) \o SubSeq(arr, from + count + 1, len)

PushFront(arr, h) == <<h>> \o arr

PushUnique(arr, h) == IF \E j \in 1..Len(arr) : arr[j] = h THEN arr ELSE Append(arr, h)

\* Array.prototype.push
Push(arr, h) == Append(arr, h)

\* Array.prototype.slice(): a copy
Slice(arr) == arr

----------------------------------------------------------------------------
(* Callers *)

Top == stack[Len(stack)]

\* the calls made so far by handlers since the outermost emit began
RECURSIVE Reentrant(_)
Reentrant(st) ==
    IF st = <<>> THEN 0 ELSE Len(st[Len(st)].made) + Reentrant(SubSeq(st, 1, Len(st) - 1))

\* a call of on / off / emit comes from the embedding code (no dispatch in progress)
\* or from the handler that is running
CanCall ==
    /\ ~exc
    /\ \/ stack = <<>>
       \/ /\ stack # <<>>
          /\ Top.status = "active"
          /\ Top.running
          /\ Reentrant(stack) < MaxReentrant

\* the running handler's call is put on record in its dispatch
Charge(st, op, type, arg) ==
    IF st = <<>> THEN st
    ELSE [st EXCEPT ![Len(st)].made = Append(@, [op |-> op, type |-> type, arg |-> arg])]

\* a dispatch ends: its record goes to the dispatch whose handler called it
Pop(st) ==
    LET n == Len(st)
    IN  IF n = 1 THEN <<>>
        ELSE [SubSeq(st, 1, n - 1) EXCEPT ![n - 1].made = @ \o st[n].made]

----------------------------------------------------------------------------
(* on(type, handler)  --  index.ts 69-80 *)

on(e, type, handler) ==
    /\ CanCall
    /\ all[e] # Undefined
    /\ TotalLen(maps, Slots) < MaxTotal
    /\ LET m == all[e]
       IN  IF MapHas(maps, m, type)
           THEN /\ maps' = ArrayWrite(maps, aliases, <<m, type>>,
                                      Push(MapGet(maps, m, type), handler))
                /\ aliases' = aliases
           ELSE /\ maps' = MapSet(maps, <<m, type>>, <<handler>>)
                /\ aliases' = Unalias(aliases, <<m, type>>)
    /\ stack' = Charge(stack, "on", type, handler)
    /\ UNCHANGED <<all, exc>>

----------------------------------------------------------------------------
(* off(type, handler?)  --  index.ts 89-105 *)

OffIndexSigned(handlers, handler) == Num(IndexOf(handlers, handler))

\* handlers.indexOf(handler) >>> 0
OffIndex(handlers, handler) == ToUint32(Num(IndexOf(handlers, handler)))

OffArray(handlers, handler) ==
    IF handler # Undefined
    THEN Splice(handlers, OffIndex(handlers, handler), 1)
    ELSE <<>>

off(e, type, handler) ==
    /\ CanCall
    /\ all[e] # Undefined
    /\ LET m == all[e]
       IN  IF MapHas(maps, m, type)
           THEN IF handler # Undefined
                THEN /\ maps' = ArrayWrite(maps, aliases, <<m, type>>,
                                           OffArray(MapGet(maps, m, type), handler))
                     /\ aliases' = aliases
                ELSE /\ maps' = MapSet(maps, <<m, type>>,
                                       OffArray(MapGet(maps, m, type), handler))
                     /\ aliases' = Unalias(aliases, <<m, type>>)
           ELSE UNCHANGED <<maps, aliases>>
    /\ stack' = Charge(stack, "off", type, handler)
    /\ UNCHANGED <<all, exc>>

----------------------------------------------------------------------------
(* emit(type, evt?)  --  index.ts 119-139 *)

\* the array a dispatch loop runs over: `if (handlers)` then handlers.slice()
Snapshot(mp, m, type) == IF MapHas(mp, m, type) THEN Slice(MapGet(mp, m, type)) ELSE <<>>

FirstKeyStar(type) == Star

\* the key looked up first and the key looked up second
FirstKey(type) == type
SecondKey(type) == Star

TypedArgsAbsent(type, evt) == <<Undefined>>

\* the arguments of a type-matched call and of a wildcard call
TypedArgs(type, evt) == <<evt>>
WildArgs(type, evt) == <<type, evt>>

IterLive(f) ==
    Registered(maps, all[f.e], IF f.phase = "typed" THEN FirstKey(f.type) ELSE SecondKey(f.type))

IterLiveFirst(f) ==
    IF f.phase = "typed" THEN Registered(maps, all[f.e], FirstKey(f.type)) ELSE f.snap

\* the array the running loop takes its next handler from: the copy
IterArray(f) == f.snap

\* .map((handler) => { handler(...) }): the next handler of the loop is called
InvokeNext(f) ==
    LET h    == IterArray(f)[f.i + 1]
        call == [h    |-> h,
                 args |-> IF f.phase = "typed" THEN TypedArgs(f.type, f.evt)
                                               ELSE WildArgs(f.type, f.evt),
                 from |-> IF f.phase = "typed" THEN FirstKey(f.type)
                                               ELSE SecondKey(f.type),
                 loop |-> f.phase,
                 end  |-> "running"]
    IN  [f EXCEPT !.i = @ + 1, !.running = TRUE, !.calls = Append(@, call)]

\* the first loop is over: handlers = all.get('*'), second loop
StartWild(f) ==
    [f EXCEPT !.phase = "wild",
              !.snap  = Snapshot(maps, all[f.e], SecondKey(f.type)),
              !.i     = 0,
              !.star1 = Registered(maps, all[f.e], Star)]

\* emit runs on by itself until it calls the next handler or reaches its end
Advance(f) ==
    IF f.i < Len(IterArray(f)) THEN InvokeNext(f)
    ELSE IF f.phase = "typed"
         THEN LET g == StartWild(f)
              IN  IF g.i < Len(IterArray(g)) THEN InvokeNext(g) ELSE g
         ELSE f

\* emit is called: first lookup, copy, and on to the first handler.
\* Payloads are opaque to emit, which only hands them on; a handler that calls
\* emit is taken to pass on the payload it was called with.
emit(e, type, evt) ==
    /\ CanCall
    /\ all[e] # Undefined
    /\ Len(stack) < MaxDepth
    /\ stack # <<>> => evt = Top.evt
    /\ LET m == all[e]
           f == [e       |-> e,
                 type    |-> type,
                 evt     |-> evt,
                 phase   |-> "typed",
                 snap    |-> Snapshot(maps, m, FirstKey(type)),
                 i       |-> 0,
                 running |-> FALSE,
                 status  |-> "active",
                 made    |-> <<>>,
                 calls   |-> <<>>,
                 typed0  |-> Registered(maps, m, type),
                 star0   |-> Registered(maps, m, Star),
                 star1   |-> <<>>]
       IN  /\ stack' = Append(Charge(stack, "emit", type, evt), Advance(f))
           /\ maps' = MapAfterGet(maps, m, FirstKey(type))
    /\ UNCHANGED <<all, aliases, exc>>

SetTop(f) == [stack EXCEPT ![Len(stack)] = f]

\* the running handler returns, and emit runs on
Return ==
    /\ stack # <<>> /\ Top.status = "active" /\ Top.running /\ ~exc
    /\ stack' = SetTop(Advance([Top EXCEPT !.running = FALSE,
                                           !.calls[Len(Top.calls)].end = "returned"]))
    /\ UNCHANGED <<all, maps, aliases, exc>>

ThrownCaught(f) == [f EXCEPT !.running = FALSE]

ThrownStuck(f) == [f EXCEPT !.running = FALSE, !.status = "stuck"]

\* what emit does with a handler's exception: nothing, the loop is abandoned
Thrown(f) == [f EXCEPT !.running = FALSE, !.status = "thrown"]

\* the running handler throws, or lets the exception of a nested emit through
Throw ==
    /\ stack # <<>> /\ Top.status = "active" /\ Top.running
    /\ LET f == Thrown([Top EXCEPT !.calls[Len(Top.calls)].end = "threw"])
       IN  /\ stack' = SetTop(f)
           /\ exc' = (f.status = "thrown")
    /\ UNCHANGED <<all, maps, aliases>>

ReturningEarly(f) == f.status = "active"

\* both loops are over: emit returns to its caller
Returning(f) == f.status = "active" /\ ~f.running

EmitReturn ==
    /\ stack # <<>> /\ ~exc
    /\ Returning(Top)
    /\ stack' = Pop(stack)
    /\ UNCHANGED <<all, maps, aliases, exc>>

\* the exception leaves emit for emit's caller
Unwind ==
    /\ stack # <<>> /\ Top.status = "thrown"
    /\ stack' = Pop(stack)
    /\ UNCHANGED <<all, maps, aliases, exc>>

\* emit's caller (the embedding code, or the handler that called emit) catches it
Catch ==
    /\ exc
    /\ \/ stack = <<>>
       \/ stack # <<>> /\ Top.status = "active" /\ Top.running
    /\ exc' = FALSE
    /\ UNCHANGED <<all, maps, aliases, stack>>

----------------------------------------------------------------------------
(* mitt(all?)  --  index.ts 46-62 *)

mittCopy(arg, fresh) == fresh

\* all = all || new Map()
mitt(arg, fresh) == IF arg # Undefined THEN arg ELSE fresh

\* Maps a caller may pass to mitt: two keys holding one array object
SeededArrays == {<<>>}

Init ==
    /\ all = [e \in Emitters |-> IF e = "e1" THEN mitt(Undefined, "m1") ELSE Undefined]
    /\ \/ /\ maps = [m \in MapIds |-> EmptyMap]
          /\ aliases = {}
       \/ \E arr \in SeededArrays :
          /\ maps = [m \in MapIds |-> IF m = "m1" THEN [k \in Keys |-> arr] ELSE EmptyMap]
          /\ aliases = {{<<"m1", k>> : k \in Keys}}
    /\ stack = <<>>
    /\ exc = FALSE

Next ==
    \/ \E e \in Emitters, type \in Keys, handler \in Handlers : on(e, type, handler)
    \/ \E e \in Emitters, type \in Keys, handler \in Handlers \cup {Undefined} :
          off(e, type, handler)
    \/ \E e \in Emitters, type \in Keys, evt \in Payloads : emit(e, type, evt)
    \/ Return
    \/ Throw
    \/ EmitReturn
    \/ Unwind
    \/ Catch

Spec == Init /\ [][Next]_vars

\* The calls of Next with handlers that do not call emit: on and off come from
\* the embedding code or from the running handler, emit from the embedding code
NextFlat ==
    \/ \E e \in Emitters, type \in Keys, handler \in Handlers : on(e, type, handler)
    \/ \E e \in Emitters, type \in Keys, handler \in Handlers \cup {Undefined} :
          off(e, type, handler)
    \/ \E e \in Emitters, type \in Keys, evt \in Payloads :
          stack = <<>> /\ emit(e, type, evt)
    \/ Return
    \/ Throw
    \/ EmitReturn
    \/ Unwind
    \/ Catch

\* Handlers that do not call emit, and that end: a handler that was called
\* returns unless it throws, and emit runs on as soon as it can
SpecFlat ==
    /\ Init
    /\ [][NextFlat]_vars
    /\ WF_vars(Return)
    /\ WF_vars(EmitReturn)
    /\ WF_vars(Unwind)

\* Two emitters made from one Map of the embedding code: m = new Map(),
\* e1 = mitt(m), e2 = mitt(m)
InitShared ==
    /\ all = [e \in Emitters |-> mitt("m0", IF e = "e1" THEN "m1" ELSE "m2")]
    /\ maps = [m \in MapIds |-> EmptyMap]
    /\ aliases = {}
    /\ stack = <<>>
    /\ exc = FALSE

SpecShared == InitShared /\ [][NextFlat]_vars

----------------------------------------------------------------------------
(* Properties *)

Frames == {stack[j] : j \in 1..Len(stack)}

\* the calls of one loop of a dispatch, and the handlers they went to
CallsOfLoop(f, l) == SelectSeq(f.calls, LAMBDA c : c.loop = l)
HandlersOf(cs) == [j \in 1..Len(cs) |-> cs[j].h]
TypedRun(f) == HandlersOf(CallsOfLoop(f, "typed"))
WildRun(f) == HandlersOf(CallsOfLoop(f, "wild"))

IsPrefix(s, t) == Len(s) <= Len(t) /\ SubSeq(t, 1, Len(s)) = s
Elems(s) == {s[j] : j \in 1..Len(s)}

\* a sequence without the first occurrence of h
RECURSIVE RemoveFirst(_, _)
RemoveFirst(s, h) ==
    IF s = <<>> THEN <<>>
    ELSE IF Head(s) = h THEN Tail(s)
    ELSE <<Head(s)>> \o RemoveFirst(Tail(s), h)

\* what a recorded call is meant to do to the sequence of the key it names
ApplyCall(c, s) ==
    IF c.op = "on" THEN Append(s, c.arg)
    ELSE IF c.op = "off" /\ c.arg # Undefined THEN RemoveFirst(s, c.arg)
    ELSE IF c.op = "off" THEN <<>>
    ELSE s

RECURSIVE ApplyCalls(_, _)
ApplyCalls(cs, s) == IF cs = <<>> THEN s ELSE ApplyCalls(Tail(cs), ApplyCall(Head(cs), s))

\* C1 as stated (for emits of a concrete type): every emit call invokes, in both
\* loops, exactly the handlers that registry[type] and registry['*'] held at the
\* moment emit was called.
C1_FixedAtCall ==
    \A f \in Frames :
        f.type # Star =>
            /\ IsPrefix(TypedRun(f), f.typed0)
            /\ IsPrefix(WildRun(f), f.star0)
            /\ Returning(f) => TypedRun(f) = f.typed0 /\ WildRun(f) = f.star0

\* C1 amended: the type-matched handlers an emit call invokes are exactly those
\* of registry[type] at the moment emit was called, and its wildcard handlers
\* are exactly those of registry['*'] at the moment the type-matched loop ended;
\* on/off calls made later than that do not change what the call invokes.
C1_FixedAtLookup ==
    \A f \in Frames :
        /\ IsPrefix(TypedRun(f), f.typed0)
        /\ f.phase = "typed" => WildRun(f) = <<>>
        /\ f.phase = "wild" => TypedRun(f) = f.typed0 /\ IsPrefix(WildRun(f), f.star1)
        /\ Returning(f) => WildRun(f) = f.star1

\* an emit about to return, one of whose handlers changed the registry by on or off
C1_Witness ==
    /\ Len(stack) = 1
    /\ Returning(Top)
    /\ Len(Top.calls) >= 2
    /\ Top.made # <<>>
    /\ Top.made[1].op \in {"on", "off"}
    /\ \/ Registered(maps, all[Top.e], Top.type) # Top.typed0
       \/ Registered(maps, all[Top.e], Star) # Top.star1

\* C2: snapshot isolation on a concrete key t.  Whatever on(t, .) / off(t, .) /
\* off(t) calls the handlers make while emit(t, v) runs its type-matched loop,
\* that loop invokes the handlers registry[t] held when emit was called; the
\* calls do take effect on registry[t], which is what any later emit(t, v)
\* starts from and invokes.
C2_SnapshotIsolation ==
    \A f \in Frames :
        f.type # Star =>
            /\ IsPrefix(TypedRun(f), f.typed0)
            /\ f.phase = "wild" => TypedRun(f) = f.typed0
            /\ ( /\ Len(stack) = 1
                 /\ f.phase = "typed"
                 /\ \A j \in 1..Len(f.made) : f.made[j].op = "emit" \/ f.made[j].type = f.type )
               => Registered(maps, all[f.e], f.type) = ApplyCalls(f.made, f.typed0)

\* a handler of t took the first handler of t out of registry[t] while the
\* second was not yet called or had just been called: both are called
C2_Witness ==
    /\ Len(stack) = 1
    /\ Top.type # Star
    /\ Top.phase = "typed"
    /\ Len(Top.calls) = 2
    /\ Top.calls[2].end = "running"
    /\ Top.made = <<[op |-> "off", type |-> Top.type, arg |-> Top.calls[1].h]>>
    /\ Top.calls[2].h # Top.calls[1].h
    /\ Registered(maps, all[Top.e], Top.type) = <<Top.calls[2].h>>

\* C3: wildcard-after.  In every emit call the calls of the first loop go to
\* handlers of the emitted type and all of them have been made, and have
\* returned, before the first call of the second loop, which goes to handlers
\* of the wildcard key.
C3_WildcardAfter ==
    \A f \in Frames :
        /\ \A j \in 1..Len(f.calls) :
              /\ f.calls[j].loop = "typed" => f.calls[j].from = f.type
              /\ f.calls[j].loop = "wild" => f.calls[j].from = Star
              /\ \A k \in 1..(j - 1) :
                    f.calls[j].loop = "typed" => f.calls[k].loop = "typed"
              /\ \A k \in 1..(j - 1) :
                    (f.calls[j].loop = "wild" /\ f.calls[k].loop = "typed")
                        => f.calls[k].end = "returned"
        /\ WildRun(f) # <<>> => TypedRun(f) = f.typed0

\* type-matched and wildcard handlers both called by one emit of a concrete type
C3_Witness ==
    /\ stack # <<>>
    /\ Top.type # Star
    /\ Len(TypedRun(Top)) >= 2
    /\ Len(WildRun(Top)) >= 1

\* C4: registration order.  An array changes only by a new handler added at its
\* end or by handlers taken out with the others keeping their order, and emit
\* calls the handlers of its type in the order of the array, each with the payload.
C4_StepKeepsOrder ==
    \A m \in MapIds, k \in Keys :
        LET old == Registered(maps, m, k)
            new == Registered(maps', m, k)
        IN  \/ new = old
            \/ \E h \in Handlers : new = Append(old, h)
            \/ new = <<>>
            \/ \E j \in 1..Len(old) : new = SubSeq(old, 1, j - 1) \o SubSeq(old, j + 1, Len(old))

C4_CallsInOrder ==
    \A f \in Frames :
        /\ IsPrefix(TypedRun(f), f.typed0)
        /\ f.phase = "wild" => Len(TypedRun(f)) = Len(f.typed0)
        /\ \A j \in 1..Len(f.calls) :
              f.calls[j].loop = "typed" => f.calls[j].args = <<f.evt>>

C4_RegistrationOrder == [](C4_CallsInOrder) /\ [][C4_StepKeepsOrder]_vars

\* three registrations under one key, called in their order with the payload
C4_Witness ==
    /\ stack # <<>>
    /\ Top.evt = "v"
    /\ Top.typed0 = <<"h1", "h2", "h1">>
    /\ TypedRun(Top) = Top.typed0

\* C5: a handler's exception is not caught by emit.  The call that threw is the
\* last call of its emit (no later handler of either loop is called), the calls
\* before it each went once to the handlers of the snapshot in order and
\* returned, and the exception leaves emit for emit's caller.
C5_ThrowEndsDispatch ==
    \A f \in Frames :
        \A j \in 1..Len(f.calls) :
            f.calls[j].end = "threw" =>
                /\ j = Len(f.calls)
                /\ f.status = "thrown"
                /\ f = Top
                /\ exc
                /\ \A k \in 1..(j - 1) : f.calls[k].end = "returned"
                /\ IsPrefix(TypedRun(f), f.typed0)
                /\ f.calls[j].loop = "typed" => WildRun(f) = <<>>
                /\ f.calls[j].loop = "wild" => TypedRun(f) = f.typed0 /\ IsPrefix(WildRun(f), f.star1)

C5_ThrowReachesCaller ==
    (stack # <<>> /\ Top.status = "thrown") =>
        /\ Len(stack') = Len(stack) - 1
        /\ exc'
        /\ \A j \in 1..Len(stack') : stack'[j].calls = stack[j].calls

C5_NotCaught == [](C5_ThrowEndsDispatch) /\ [][C5_ThrowReachesCaller]_vars

\* a type-matched handler threw with another one and a wildcard handler still to come
C5_Witness ==
    /\ stack # <<>>
    /\ Top.status = "thrown"
    /\ Top.phase = "typed"
    /\ Len(Top.calls) = 1
    /\ Len(Top.typed0) = 2
    /\ Top.star0 # <<>>

\* C6: targeted removal.  off(t, h) with h in registry[t] leaves registry[t]
\* without its first occurrence of h and otherwise as it was, and emit(t, v)
\* calls what is left.
C6_StepRemovesFirst ==
    \A e \in Emitters, t \in Keys, h \in Handlers :
        (all[e] # Undefined /\ off(e, t, h) /\ h \in Elems(Registered(maps, all[e], t)))
            => /\ MapHas(maps', all[e], t)
               /\ maps'[all[e]][t] = RemoveFirst(maps[all[e]][t], h)

C6_CallsWhatIsLeft ==
    \A f \in Frames :
        /\ \A j \in 1..Len(TypedRun(f)) : j <= Len(f.typed0) /\ TypedRun(f)[j] = f.typed0[j]
        /\ Returning(f) => Len(TypedRun(f)) = Len(f.typed0)

C6_TargetedRemoval == [](C6_CallsWhatIsLeft) /\ [][C6_StepRemovesFirst]_vars

\* a handler of t took h1 out of <<h1, h2, h1>>: <<h2, h1>> is left
C6_Witness ==
    /\ Len(stack) = 1
    /\ Top.type # Star
    /\ Top.typed0 = <<"h1", "h2", "h1">>
    /\ Len(Top.made) = 1
    /\ Top.made[1].op = "off" /\ Top.made[1].type = Top.type /\ Top.made[1].arg = "h1"
    /\ MapHas(maps, all[Top.e], Top.type)
    /\ maps[all[Top.e]][Top.type] = <<"h2", "h1">>

\* C7: no-op removal.  off(t, h) on a key without a sequence, off(t) on a key
\* without a sequence, and off(t, h) with h not in registry[t] leave the whole
\* registry as it was.
C7_StepNoOp ==
    \A e \in Emitters, t \in Keys, h \in Handlers \cup {Undefined} :
        ( /\ all[e] # Undefined
          /\ off(e, t, h)
          /\ \/ ~MapHas(maps, all[e], t)
             \/ h # Undefined /\ h \notin Elems(Registered(maps, all[e], t)) )
            => maps' = maps /\ aliases' = aliases

C7_NoOpRemoval == [][C7_StepNoOp]_vars

\* a handler asked to remove a handler that is not in the non-empty sequence
C7_Witness ==
    /\ Len(stack) = 1
    /\ Top.type # Star
    /\ Len(Top.typed0) >= 2
    /\ Len(Top.made) = 1
    /\ Top.made[1].op = "off" /\ Top.made[1].type = Top.type
    /\ Top.made[1].arg \in Handlers \ Elems(Top.typed0)
    /\ MapHas(maps, all[Top.e], Top.type)
    /\ maps[all[Top.e]][Top.type] = Top.typed0

\* C8: full clear.  off(t) on a key with a sequence leaves the key in the
\* registry with an empty sequence; on(t, h) on an empty sequence makes it <<h>>;
\* emit(t, v) calls no type-matched handler when the sequence is empty and
\* exactly the one registered when there is one.
C8_StepClears ==
    /\ \A e \in Emitters, t \in Keys :
          (all[e] # Undefined /\ off(e, t, Undefined) /\ MapHas(maps, all[e], t))
              => MapHas(maps', all[e], t) /\ maps'[all[e]][t] = <<>>
    /\ \A e \in Emitters, t \in Keys, h \in Handlers :
          (all[e] # Undefined /\ on(e, t, h) /\ MapHas(maps, all[e], t) /\ maps[all[e]][t] = <<>>)
              => MapHas(maps', all[e], t) /\ maps'[all[e]][t] = <<h>>

C8_CallsAfterClear ==
    \A f \in Frames :
        /\ f.typed0 = <<>> => TypedRun(f) = <<>>
        /\ (Len(f.typed0) = 1 /\ f.phase = "wild") => TypedRun(f) = f.typed0

C8_FullClear == [](C8_CallsAfterClear) /\ [][C8_StepClears]_vars

\* a handler cleared the non-empty sequence of its key: the key is there, empty
C8_Witness ==
    /\ Len(stack) = 1
    /\ Top.type # Star
    /\ Len(Top.typed0) >= 2
    /\ Len(Top.made) = 1
    /\ Top.made[1].op = "off" /\ Top.made[1].type = Top.type /\ Top.made[1].arg = Undefined
    /\ MapHas(maps, all[Top.e], Top.type)
    /\ maps[all[Top.e]][Top.type] = <<>>

\* C9: handler argument shape.  Every call of a handler taken from the wildcard
\* key's sequence passes the type given to emit and the payload, every call of a
\* handler taken from a concrete key's sequence passes the payload alone.
C9_ArgumentShape ==
    \A f \in Frames :
        \A j \in 1..Len(f.calls) :
            /\ f.calls[j].from = Star => f.calls[j].args = <<f.type, f.evt>>
            /\ f.calls[j].from # Star => f.calls[j].args = <<f.evt>>

\* C10: wildcard delivery exactly once.  An emit call that returns, and whose
\* handlers called neither on nor off, has called each occurrence of a handler
\* in the wildcard key's sequence exactly once, whatever its type is.
C10_WildcardOnce ==
    \A f \in Frames :
        (Returning(f) /\ f.made = <<>>) =>
            HandlersOf(SelectSeq(f.calls, LAMBDA c : c.from = Star)) = f.star1

\* What every on / off step and every emit step does to the stack: the step
\* formulas below look for on(..), off(..) and emit(..) on such steps only.
RegistryStep ==
    /\ exc' = exc
    /\ \/ stack' = stack
       \/ /\ stack # <<>>
          /\ Len(stack') = Len(stack)
          /\ Len(stack'[Len(stack)].made) = Len(Top.made) + 1
EmitStep == Len(stack') = Len(stack) + 1

\* the number of occurrences of h in a sequence
Count(s, h) == Cardinality({j \in 1..Len(s) : s[j] = h})

\* C11: duplicates are retained.  on(t, h) adds one occurrence of h to
\* registry[t] whether or not h is already there, off(t, h) takes out exactly
\* one occurrence when there is one, and neither changes the number of
\* occurrences of any other handler; emit calls each handler as many times as
\* it occurs in the sequence of the emitted concrete type, and as many times as
\* it occurs in the wildcard key's sequence.
C11_StepCounts ==
    RegistryStep =>
        \A e \in Emitters, t \in Keys, h \in Handlers :
            all[e] # Undefined =>
                LET old == Registered(maps, all[e], t)
                    new == Registered(maps', all[e], t)
                IN  /\ on(e, t, h) =>
                          \A g \in Handlers :
                              Count(new, g) = Count(old, g) + (IF g = h THEN 1 ELSE 0)
                    /\ off(e, t, h) =>
                          \A g \in Handlers :
                              Count(new, g) = Count(old, g)
                                              - (IF g = h /\ Count(old, h) > 0 THEN 1 ELSE 0)

C11_CallsEachOccurrence ==
    \A f \in Frames :
        \A h \in Handlers :
            /\ f.phase = "wild" => Count(TypedRun(f), h) = Count(f.typed0, h)
            /\ (Returning(f) /\ f.type # Star) =>
                   /\ Count(WildRun(f), h) = Count(f.star1, h)
                   /\ Count(HandlersOf(f.calls), h) = Count(f.typed0, h) + Count(f.star1, h)

C11_DuplicatesRetained == [](C11_CallsEachOccurrence) /\ [][C11_StepCounts]_vars

\* one handler registered three times under a concrete key and called three times
C11_Witness ==
    /\ stack # <<>>
    /\ Top.type # Star
    /\ Top.typed0 = <<"h1", "h1", "h1">>
    /\ TypedRun(Top) = <<"h1", "h1", "h1">>
    /\ Top.phase = "wild"

\* C12: shared-map construction (two emitters made from one pre-existing Map).
\* Both emitters see one registry: what on, off(t, h) and off(t) do through one
\* of them is what the other one finds under the key, and an emit through
\* either of them runs over the handlers, in the order, that an emit through
\* the other would run over.
C12_SameRegistry ==
    \A e \in Emitters, d \in Emitters, t \in Keys :
        /\ MapHas(maps, all[e], t) <=> MapHas(maps, all[d], t)
        /\ Snapshot(maps, all[e], t) = Snapshot(maps, all[d], t)

C12_StepSeenByOther ==
    /\ RegistryStep =>
          \A e \in Emitters, t \in Keys :
              /\ \A h \in Handlers :
                    on(e, t, h) =>
                        \A d \in Emitters :
                            Registered(maps', all[d], t) = Append(Registered(maps, all[d], t), h)
              /\ \A h \in Handlers :
                    off(e, t, h) =>
                        \A d \in Emitters :
                            Registered(maps', all[d], t) = RemoveFirst(Registered(maps, all[d], t), h)
              /\ off(e, t, Undefined) =>
                    \A d \in Emitters : Registered(maps', all[d], t) = <<>>
    /\ EmitStep =>
          \A e \in Emitters, t \in Keys, v \in Payloads :
              emit(e, t, v) =>
                  LET f == stack'[Len(stack) + 1]
                  IN  \A d \in Emitters :
                          /\ f.typed0 = Registered(maps, all[d], t)
                          /\ IsPrefix(TypedRun(f), Snapshot(maps, all[d], t))
                          /\ f.phase = "wild" =>
                                 IsPrefix(WildRun(f), Snapshot(maps, all[d], Star))

C12_SharedMap == [](C12_SameRegistry) /\ [][C12_StepSeenByOther]_vars

\* an emit through the second emitter that has called two handlers
\* and brought a third one into the registry of both
C12_Witness ==
    /\ Len(stack) = 1
    /\ Top.e = "e2"
    /\ all["e1"] = all["e2"]
    /\ Top.type # Star
    /\ TypedRun(Top) = <<"h1", "h2">>
    /\ Top.made = <<[op |-> "on", type |-> Top.type, arg |-> "h1"]>>
    /\ Snapshot(maps, all["e1"], Top.type) = <<"h1", "h2", "h1">>

\* the calls of a dispatch have all returned, and were all of its two snapshots
AllReturned(f) == \A k \in 1..Len(f.calls) : f.calls[k].end = "returned"
FullDispatch(f) == TypedRun(f) = f.typed0 /\ WildRun(f) = f.star1 /\ AllReturned(f)

\* C13: synchronous, depth-first dispatch.  A dispatch calls one handler at a
\* time; an emit begins only when no dispatch is in progress or from the handler
\* that is running; while the emit a handler made is in progress, the dispatch
\* that called this handler calls nothing and keeps its snapshot, and it goes on
\* from its own snapshot afterwards; and an emit returns normally only when all
\* handlers of its two snapshots have been called and have returned.
C13_OneAtATime ==
    /\ \A j \in 1..(Len(stack) - 1) :
          /\ stack[j].status = "active"
          /\ stack[j].running
          /\ stack[j].calls # <<>>
          /\ stack[j].calls[Len(stack[j].calls)].end = "running"
    /\ \A f \in Frames :
          /\ \A k \in 1..(Len(f.calls) - 1) : f.calls[k].end = "returned"
          /\ IsPrefix(TypedRun(f), f.typed0)
          /\ f.phase = "wild" => TypedRun(f) = f.typed0 /\ IsPrefix(WildRun(f), f.star1)
          /\ (f.status = "active" /\ ~f.running) => FullDispatch(f)

C13_StepDepthFirst ==
    /\ EmitStep =>
          \/ stack = <<>>
          \/ /\ Top.status = "active" /\ Top.running
             /\ Top.calls[Len(Top.calls)].end = "running"
             /\ stack'[Len(stack)].calls = Top.calls
    /\ \A j \in 1..(Len(stack) - 1) :
          j <= Len(stack') =>
              /\ stack'[j].calls = stack[j].calls
              /\ stack'[j].snap = stack[j].snap
              /\ stack'[j].i = stack[j].i
              /\ stack'[j].phase = stack[j].phase
    /\ (Len(stack') < Len(stack) /\ Top.status = "active") =>
          /\ FullDispatch(Top)
          /\ Len(stack') = Len(stack) - 1

C13_DepthFirst == [](C13_OneAtATime) /\ [][C13_StepDepthFirst]_vars

\* the emit made by the first of two handlers has called its handlers and is
\* about to return; the second handler of the outer emit has yet to be called
C13_Witness ==
    /\ Len(stack) = 2
    /\ Returning(stack[2])
    /\ Len(stack[2].calls) >= 2
    /\ Len(stack[1].typed0) >= 2
    /\ Len(stack[1].calls) = 1

\* C14: payload pass-through and absent payload.  Every call of the first loop
\* passes exactly the payload given to emit, every call of the second loop
\* passes the type and that payload, also when the payload is absent
\* (undefined); and an emit ends with an error only when one of its handlers
\* threw, whatever the payload is.
C14_PayloadPassThrough ==
    \A f \in Frames :
        /\ \A j \in 1..Len(f.calls) :
              LET c == f.calls[j]
              IN  /\ c.args[Len(c.args)] = f.evt
                  /\ c.loop = "typed" => Len(c.args) = 1
                  /\ c.loop = "wild" => Len(c.args) = 2 /\ c.args[1] = f.type
        /\ f.status = "thrown" =>
              f.calls # <<>> /\ f.calls[Len(f.calls)].end = "threw"
        /\ (f.status = "active" /\ ~f.running) => FullDispatch(f)

\* an emit of a concrete type without payload has called a type-matched handler
\* and a wildcard handler and is about to return
C14_Witness ==
    /\ Len(stack) = 1
    /\ Top.type # Star
    /\ Top.evt = Undefined
    /\ Returning(Top)
    /\ Len(TypedRun(Top)) >= 1
    /\ Len(WildRun(Top)) >= 1
    /\ Top.calls[1].args = <<Undefined>>
    /\ Top.calls[Len(Top.calls)].args = <<Top.type, Undefined>>

\* the calls that handlers have made since dispatch j began are all emits
OnlyEmitsSince(j) ==
    \A k \in j..Len(stack) :
        \A l \in 1..Len(stack[k].made) : stack[k].made[l].op = "emit"

\* C15: emit does not itself mutate the registry.  The registry (its keys and
\* its sequences) changes in no step other than an on or an off: not when emit
\* is called, also for a type without entry, nor when a handler is called,
\* returns or throws, nor when emit returns or is left by an exception.  As long
\* as its handlers have called neither on nor off, the sequences of the emitted
\* type and of the wildcard key are those of the moment emit was called.
C15_StepLeavesRegistry ==
    (maps' # maps \/ aliases' # aliases) =>
        /\ RegistryStep
        /\ \E e \in Emitters, t \in Keys, h \in Handlers \cup {Undefined} :
              \/ h # Undefined /\ on(e, t, h)
              \/ off(e, t, h)

C15_RegistryAsAtCall ==
    \A j \in 1..Len(stack) :
        OnlyEmitsSince(j) =>
            /\ Registered(maps, all[stack[j].e], stack[j].type) = stack[j].typed0
            /\ Registered(maps, all[stack[j].e], Star) = stack[j].star0

C15_EmitLeavesRegistry == [](C15_RegistryAsAtCall) /\ [][C15_StepLeavesRegistry]_vars

\* an emit of a type without entry has called two wildcard handlers, which
\* called neither on nor off, and is about to return: the type has no entry
C15_Witness ==
    /\ Len(stack) = 1
    /\ Returning(Top)
    /\ Top.made = <<>>
    /\ Len(WildRun(Top)) >= 2
    /\ ~MapHas(maps, all[Top.e], Top.type)
    /\ Registered(maps, all[Top.e], Star) = Top.star0

\* every slot other than s is as it was: there or not, and its sequence
OtherSlotsKept(s) ==
    \A r \in Slots \ {s} :
        /\ MapHas(maps', r[1], r[2]) <=> MapHas(maps, r[1], r[2])
        /\ Registered(maps', r[1], r[2]) = Registered(maps, r[1], r[2])

\* C16: per-key frame of on and off, for a registry whose arrays are each held
\* under one key (as in every registry built by on and off alone).  on(t, h)
\* leaves under t the sequence it had with h added at the end, off(t, h) and
\* off(t) change nothing but the sequence of t, and the sequences of all other
\* keys, the wildcard key among them, stay as they are.
C16_StepFrame ==
    (RegistryStep /\ aliases = {}) =>
        \A e \in Emitters, t \in Keys :
            all[e] # Undefined =>
                /\ \A h \in Handlers :
                      on(e, t, h) =>
                          /\ Registered(maps', all[e], t)
                                 = Append(Registered(maps, all[e], t), h)
                          /\ OtherSlotsKept(<<all[e], t>>)
                          /\ aliases' = {}
                /\ \A h \in Handlers \cup {Undefined} :
                      off(e, t, h) =>
                          /\ OtherSlotsKept(<<all[e], t>>)
                          /\ aliases' = {}

C16_PerKeyFrame == [][C16_StepFrame]_vars

\* a handler of a concrete type registered a handler under its type while the
\* wildcard key held a different, non-empty sequence, which is as it was
C16_Witness ==
    /\ aliases = {}
    /\ Len(stack) = 1
    /\ Top.type # Star
    /\ Top.phase = "typed"
    /\ Top.made = <<[op |-> "on", type |-> Top.type, arg |-> "h2"]>>
    /\ Top.typed0 = <<"h1">>
    /\ Top.star0 = <<"h2">>
    /\ Registered(maps, all[Top.e], Top.type) = <<"h1", "h2">>
    /\ Registered(maps, all[Top.e], Star) = <<"h2">>

\* C17: bounded dispatch (handlers that do not call emit, and that end).  An
\* emit calls at most as many type-matched handlers as registry[type] held when
\* emit was called and at most as many wildcard handlers as registry['*'] held
\* when the second loop began, whatever the handlers register meanwhile, and
\* then it ends: every emit in progress comes to its end.
C17_CallsBounded ==
    \A f \in Frames :
        /\ Len(TypedRun(f)) <= Len(f.typed0)
        /\ Len(WildRun(f)) <= Len(f.star1)
        /\ Len(f.calls) <= Len(f.typed0) + Len(f.star1)

C17_Terminates == (stack # <<>>) ~> (stack = <<>>)

C17_BoundedDispatch == [](C17_CallsBounded) /\ C17_Terminates

\* the only handler of a concrete type registered itself again under that type
\* while it ran: it was called once, and the emit is about to return
C17_Witness ==
    /\ Len(stack) = 1
    /\ Returning(Top)
    /\ Top.type # Star
    /\ Top.typed0 = <<"h1">>
    /\ Top.made = <<[op |-> "on", type |-> Top.type, arg |-> "h1"]>>
    /\ TypedRun(Top) = <<"h1">>
    /\ Registered(maps, all[Top.e], Top.type) = <<"h1", "h1">>

\* a step in which a handler throws, or an exception leaves an emit or is caught
AbortStep ==
    \/ exc' # exc
    \/ stack # <<>> /\ Top.status = "thrown"
    \/ /\ stack # <<>>
       /\ Len(stack') = Len(stack)
       /\ stack'[Len(stack)].status = "thrown"

\* C18: no rollback and no stuck state after a throw.  When a handler throws,
\* what the handlers called before it did to the registry by on and off is in
\* the registry, and the throw, the exception leaving emit and its being caught
\* change nothing in the registry; the abandoned emit can always be left, and
\* once no dispatch is in progress and the exception is caught, the state is
\* the registry alone and every on, off and emit can be called.
C18_StepAbortKeeps ==
    AbortStep => (maps' = maps /\ aliases' = aliases /\ all' = all)

C18_MutationsPersist ==
    \A f \in Frames :
        ( /\ f.status = "thrown"
          /\ Len(stack) = 1
          /\ \A j \in 1..Len(f.made) : f.made[j].op = "emit" \/ f.made[j].type = f.type )
            => Registered(maps, all[f.e], f.type) = ApplyCalls(f.made, f.typed0)

C18_NotStuck ==
    /\ \A f \in Frames : f.status \in {"active", "thrown"}
    /\ stack # <<>> => ENABLED (Return \/ EmitReturn \/ Unwind \/ Catch)
    /\ (stack # <<>> /\ Top.status = "thrown") => ENABLED Unwind
    /\ (stack = <<>> /\ exc) => ENABLED Catch
    /\ (stack = <<>> /\ ~exc) =>
          \A e \in Emitters, t \in Keys :
              all[e] # Undefined =>
                  /\ \A v \in Payloads : ENABLED emit(e, t, v)
                  /\ \A h \in Handlers \cup {Undefined} : ENABLED off(e, t, h)
                  /\ TotalLen(maps, Slots) < MaxTotal =>
                         \A h \in Handlers : ENABLED on(e, t, h)

C18_NoRollbackNoStuck ==
    [](C18_MutationsPersist /\ C18_NotStuck) /\ [][C18_StepAbortKeeps]_vars

\* the first handler of an emit registered a handler, the second one threw:
\* the emit is abandoned and the registration is in the registry
C18_Witness ==
    /\ Len(stack) = 1
    /\ Top.status = "thrown"
    /\ exc
    /\ Len(Top.calls) = 2
    /\ Top.calls[1].end = "returned"
    /\ Top.made = <<[op |-> "on", type |-> Top.type, arg |-> "h2"]>>
    /\ Registered(maps, all[Top.e], Top.type) = Append(Top.typed0, "h2")

\* C19: the key set is monotone.  No step takes a key out of a Map: a key that
\* has a sequence keeps one, in particular when off(t, h) takes out its last
\* handler and when off(t) clears it (the sequence is then empty); on(t, h) on
\* a key with an empty sequence adds h to the entry that is there, and an emit
\* of a type whose sequence is <<h>> calls h.
C19_StepKeepsKeys ==
    /\ \A m \in MapIds, k \in Keys : MapHas(maps, m, k) => MapHas(maps', m, k)
    /\ RegistryStep =>
          \A e \in Emitters, t \in Keys :
              (all[e] # Undefined /\ MapHas(maps, all[e], t)) =>
                  LET old == maps[all[e]][t]
                  IN  /\ \A h \in Handlers :
                            (off(e, t, h) /\ old = <<h>>) => maps'[all[e]][t] = <<>>
                      /\ off(e, t, Undefined) => maps'[all[e]][t] = <<>>
                      /\ \A h \in Handlers :
                            (on(e, t, h) /\ old = <<>>) =>
                                /\ maps'[all[e]][t] = <<h>>
                                /\ aliases' = aliases

C19_CallsTheOneThere ==
    \A f \in Frames :
        \A h \in Handlers :
            (f.typed0 = <<h>> /\ (f.phase = "wild" \/ f.running)) =>
                /\ TypedRun(f) = <<h>>
                /\ f.calls[1].h = h

C19_KeysMonotone == [](C19_CallsTheOneThere) /\ [][C19_StepKeepsKeys]_vars

\* the only handler of a type took itself out while it ran: the key is still
\* there, with an empty sequence
C19_Witness ==
    /\ Len(stack) = 1
    /\ Top.type # Star
    /\ Top.typed0 = <<"h1">>
    /\ Top.made = <<[op |-> "off", type |-> Top.type, arg |-> "h1"]>>
    /\ MapHas(maps, all[Top.e], Top.type)
    /\ maps[all[Top.e]][Top.type] = <<>>

====
